---- MODULE Spec2Model ----
(***************************************************************************)
(* Model of pkg/table/writer.go: the streaming table writer (NewWriter,    *)
(* Write, Close, Err, AddFormatFunc) with its sink and its sticky error.   *)
(*                                                                         *)
(* Text is a sequence of tokens, so that Format + "\n" is a real           *)
(* concatenation.  The sink is the log of what was handed to t.Writer.     *)
(***************************************************************************)
EXTENDS Integers, Sequences, FiniteSets, TLC

VARIABLES
    cfg,      \* the WriterConfig the writer was built from
    values,   \* the ColumnSpec ([][]string) passed to NewWriter
    t,        \* the writer struct
    sink,     \* chunks written to t.Writer, in order
    flushes,  \* number of tabwriter Flush calls
    tw,       \* the tabwriter's buffer: bytes held, and whether the
              \* unfinished line has a tab-terminated cell
    out,      \* bytes delivered to config.Writer(), the output stream
    heap,     \* the function maps, by reference: the package-level
              \* localFuncMap and one map per writer
    t2,       \* a second writer of the same package, never operated on
    fn,       \* the last call of a template function: name, input, result
    last,     \* the last call: operation, argument, result, state before it
    nops      \* number of calls made so far

vars == <<cfg, values, t, sink, flushes, tw, out, heap, t2, fn, last, nops>>

\* ---------------------------------------------------------------- bounds
MaxOps == 4

\* longest tail appended to the identifier strings handed to id
MaxTail == 3
\* largest and smallest (negated) value handed to graph
MaxGraph == 415
MaxNegGraph == 5

\* ---------------------------------------------------------------- errors
Nil == "nil"
ParseError == "TemplateParseError"
ExecError == "TemplateExecutionError"
EncodingError == "EncodingError"
YAMLError == "YAMLConversionError"
SinkWriteError == "SinkWriteError"
FlushError == "FlushError"

\* ---------------------------------------------------------------- inputs
\* Records handed to Write: a plain struct, a slice (marshals, but is no
\* JSON object and has no fields), a struct holding a channel (does not
\* marshal, but its fields can be read).
Records == {"struct", "slice", "chanStruct"}

Marshals(obj) == obj \in {"struct", "slice"}
HasFields(obj) == obj \in {"struct", "chanStruct"}

ColumnSpecs == { << <<"ID", "{{.ID}}">>, <<"NAME", "{{.Name}}">> >> }
IDColumns == {"NAME", "NOPE"}
Formats == { <<>>, <<"raw">>, <<"json">>, <<"jsoncompact">>, <<"yaml">>,
             <<"{{.ID}}">>, <<"{{custom .ID}}">>, <<"{{">> }
Configs == [Quiet : BOOLEAN, NoTrunc : BOOLEAN, Format : Formats,
            IDColumn : IDColumns]

\* What the environment does during one call: whether the sink accepts the
\* header, the YAML marker and the value, whether JSON->YAML conversion and
\* the final Flush succeed.
Envs == [hdr : BOOLEAN, marker : BOOLEAN, val : BOOLEAN, conv : BOOLEAN,
         flush : BOOLEAN]

\* Write never flushes; Close and Err write nothing but the header
WriteEnvs == {e \in Envs : e.flush}
CloseEnvs == {e \in Envs : e.marker /\ e.val /\ e.conv}

FuncNames == {"id", "custom"}
UserFuncs == {"userFunc"}

\* ---------------------------------------------------------------- catalog
localFuncMap ==
    [n \in {"json", "jsoncompact", "yaml", "first", "dump", "toJson",
            "boolToStar", "array", "arrayFirst", "graph", "pointer"} |->
        CASE n = "json" -> "FormatJSON"
          [] n = "jsoncompact" -> "FormatJSONCompact"
          [] n = "yaml" -> "FormatYAML"
          [] n = "first" -> "FormatFirst"
          [] n = "dump" -> "FormatSpew"
          [] n = "toJson" -> "ToJSON"
          [] n = "boolToStar" -> "BoolToStar"
          [] n = "array" -> "ToArray"
          [] n = "arrayFirst" -> "ToArrayFirst"
          [] n = "graph" -> "Graph"
          [] n = "pointer" -> "Pointer"]

\* sprig.TxtFuncMap(), reduced to two representative entries
TxtFuncMap == [n \in {"upper", "fail"} |-> "sprig"]

Put(m, k, v) == [n \in (DOMAIN m) \cup {k} |-> IF n = k THEN v ELSE m[n]]

RECURSIVE Merge(_, _, _)
Merge(m, src, keys) ==
    IF keys = {} THEN m
    ELSE LET k == CHOOSE x \in keys : TRUE
         IN Merge(Put(m, k, src[k]), src, keys \ {k})

\* ---------------------------------------------------------------- templates
Malformed(tok) == tok = "{{"
Needs(tok) == IF tok = "{{custom .ID}}" THEN "custom" ELSE "none"
IsField(tok) == tok \in {"{{.ID}}", "{{.Name}}", "{{custom .ID}}"}

EmptyStruct == [kind |-> "empty", of |-> "none", Typed |-> "none"]
MapCtx(obj) == [kind |-> "map", of |-> obj, Typed |-> obj]
ObjCtx(obj) == [kind |-> "orig", of |-> obj, Typed |-> "none"]

\* a field action fails on a value that has neither keys nor fields
ExecFails(tok, ctx) ==
    /\ IsField(tok)
    /\ \/ ctx.kind = "empty"
       \/ ctx.kind = "orig" /\ ~HasFields(ctx.of)

Chunk(k, toks, ctx) == [k |-> k, t |-> toks, c |-> ctx]

\* ---------------------------------------------------------------- helpers
\* SimpleColumnFormat and SimpleFormat live in the layout file of the
\* package; only their results are used here.
SimpleColumnFormat(v) == <<v>>

\* the i-th cells of the rows, tab-delimited
RECURSIVE Cells(_, _)
Cells(vals, i) ==
    IF vals = <<>> THEN <<>>
    ELSE LET rest == Cells(Tail(vals), i)
             cell == IF Len(Head(vals)) >= i THEN <<Head(vals)[i]>> ELSE <<>>
         IN IF cell # <<>> /\ rest # <<>> THEN cell \o <<"\t">> \o rest
            ELSE cell \o rest

SimpleFormat(vals) ==
    [header |-> Cells(vals, 1) \o <<"\n">>, value |-> Cells(vals, 2) \o <<"\n">>]

\* variant: looks the identifier column up in the second cell
RECURSIVE idFormatWrongCell(_, _)
idFormatWrongCell(idColumn, vals) ==
    IF vals = <<>> THEN <<>>
    ELSE IF Len(Head(vals)) > 1 /\ Head(vals)[2] = idColumn
         THEN SimpleColumnFormat(Head(vals)[2]) \o <<"\n">>
         ELSE idFormatWrongCell(idColumn, Tail(vals))

RECURSIVE idFormat(_, _)
idFormat(idColumn, vals) ==
    IF vals = <<>> THEN <<>>
    ELSE IF Len(Head(vals)) > 1 /\ Head(vals)[1] = idColumn
         THEN SimpleColumnFormat(Head(vals)[2]) \o <<"\n">>
         ELSE idFormat(idColumn, Tail(vals))

\* encoding/json: the text of a value.  A record with fields marshals to
\* an object of its fields, a slice to an array; the indented form puts
\* white space between the same tokens.
MarshalIndent(data) == IF HasFields(data) THEN "{ ID, Name }" ELSE "[ ]"
Marshal(data) == IF HasFields(data) THEN "{ID,Name}" ELSE "[]"

\* variant: the text of the mapping that carries the key Typed
FormatJSONOfTypedMap(data) ==
    [s |-> IF Marshals(data) THEN <<"{ ID, Name, Typed }", "\n">> ELSE <<"\n">>,
     err |-> IF Marshals(data) THEN Nil ELSE EncodingError]

FormatJSON(data) ==
    [s |-> IF Marshals(data) THEN <<MarshalIndent(data), "\n">> ELSE <<"\n">>,
     err |-> IF Marshals(data) THEN Nil ELSE EncodingError]

\* variant: the compact encoding without its trailing newline
FormatJSONCompactNoNewline(data) ==
    [s |-> IF Marshals(data) THEN <<Marshal(data)>> ELSE <<>>,
     err |-> IF Marshals(data) THEN Nil ELSE EncodingError]

FormatJSONCompact(data) ==
    [s |-> IF Marshals(data) THEN <<Marshal(data), "\n">> ELSE <<"\n">>,
     err |-> IF Marshals(data) THEN Nil ELSE EncodingError]

\* yaml.JSONToYAML: the YAML text of the JSON document
JSONToYAML(content, ok) ==
    [s |-> IF content[1] = "{ ID, Name }" THEN <<"ID: Name:">>
           ELSE IF content[1] = "{ ID, Name, Typed }" THEN <<"ID: Name: Typed:">>
           ELSE <<"[]">>,
     err |-> IF ok THEN Nil ELSE YAMLError]

\* convert.EncodeToMap: marshal, then unmarshal into a string-keyed map;
\* the map has the record's fields and no key Typed
EncodeToMap(obj) ==
    IF Marshals(obj) /\ HasFields(obj)
    THEN [data |-> [kind |-> "map", of |-> obj, Typed |-> "none"], err |-> Nil]
    ELSE [data |-> EmptyStruct, err |-> "ConversionError"]

\* ---------------------------------------------------------------- functions
\* A Go string is a sequence of bytes; a character is one byte ("a", "b")
\* or, outside ASCII, two ("e-acute" is C3 A9 in UTF-8).
Chars == {"a", "e-acute"}

RECURSIVE UTF8(_)
UTF8(str) ==
    IF str = <<>> THEN <<>>
    ELSE (IF Head(str) = "e-acute" THEN <<"C3", "A9">> ELSE <<Head(str)>>)
         \o UTF8(Tail(str))

\* funcMap["id"]: the closure over config; len and id[:12] count bytes
idClosure(config, obj) ==
    LET id == obj
    IN IF config.NoTrunc \/ config.Quiet THEN [s |-> id, err |-> Nil]
       ELSE IF Len(id) > 12 THEN [s |-> SubSeq(id, 1, 12), err |-> Nil]
       ELSE [s |-> id, err |-> Nil]

RECURSIVE Pow2(_)
Pow2(n) == IF n = 0 THEN 1 ELSE 2 * Pow2(n - 1)

RECURSIVE Pow2Mod(_, _)
Pow2Mod(k, m) == IF k = 0 THEN 1 % m ELSE (2 * Pow2Mod(k - 1, m)) % m

RECURSIVE BitLen(_)
BitLen(n) == IF n <= 0 THEN 0 ELSE 1 + BitLen(n \div 2)

\* the binary exponent of the float64 v / 100.0, v > 0
RECURSIVE ExpUp(_, _)
ExpUp(v, e) == IF 100 * Pow2(e + 1) <= v THEN ExpUp(v, e + 1) ELSE e

RECURSIVE ExpDown(_, _)
ExpDown(v, e) == IF v * Pow2(e) < 100 THEN ExpDown(v, e + 1) ELSE 0 - e

Exponent(v) == IF v >= 100 THEN ExpUp(v, 0) ELSE ExpDown(v, 1)

\* int(float64(v) / 100.0 * 30) for v > 0, in IEEE 754 binary64 with
\* round-to-nearest-even.  The quotient has the 53-bit significand
\* m = round(v * 2^k / 100), k = 52 - Exponent(v); r is the remainder of
\* that division.  The product 30 * m lies D = 30 * r / 100 below
\* N * 2^k, N = 3 * v / 10, when the quotient was rounded down, and is
\* rounded to a multiple of 2^q.  Only when 3 * v / 10 is an integer can
\* the result fall below it: the fraction is otherwise at least 1/10.
BarsPos(v) ==
    LET N == (3 * v) \div 10
        k == 52 - Exponent(v)
        r == (v * Pow2Mod(k, 100)) % 100
        floorOdd == (((v * Pow2Mod(k, 200)) - r) % 200) \div 100
        down == r < 50 \/ (r = 50 /\ floorOdd = 0)
        D == (3 * r) \div 10
        q == k + BitLen(N - 1) - 53
    IN IF v % 10 # 0 \/ ~down \/ r = 0 THEN N
       ELSE IF D > Pow2(q - 1) THEN N - 1
       ELSE N

\* the conversion to int truncates toward zero
Bars(value) ==
    IF value = 0 THEN 0
    ELSE IF value > 0 THEN BarsPos(value)
    ELSE 0 - BarsPos(0 - value)

\* fmt's %v of an int
Digit(d) == <<"0", "1", "2", "3", "4", "5", "6", "7", "8", "9">>[d + 1]

RECURSIVE Decimal(_)
Decimal(n) ==
    IF n < 0 THEN <<"-">> \o Decimal(0 - n)
    ELSE IF n < 10 THEN <<Digit(n)>>
    ELSE Decimal(n \div 10) \o <<Digit(n % 10)>>

\* the loop of Graph: no pass when bars <= 0; otherwise "=" at the
\* indexes 0 .. bars-2, then "> value" at index bars-1 and break
GraphLoop(bars, value) ==
    IF ~(0 < bars) THEN <<>>
    ELSE [i \in 1..(bars - 1) |-> "="] \o <<">", " ">> \o Decimal(value)

Graph(value) ==
    [s |-> GraphLoop(Bars(value), value), err |-> Nil]

\* ---------------------------------------------------------------- NewWriter
\* The function map of a new writer, allocated at ref in heap h: a fresh
\* copy of sprig's map, the entries of localFuncMap, and the id closure.
Heap0 == [r \in {"localFuncMap"} |-> localFuncMap]

\* variant: the package-level map is extended in place and shared
newFuncMapShared(h, ref) ==
    [ref |-> "localFuncMap",
     heap |-> [h EXCEPT !["localFuncMap"] =
                  Put(Merge(@, TxtFuncMap, DOMAIN TxtFuncMap), "id", "idClosure")]]

newFuncMap(h, ref) ==
    [ref |-> ref,
     heap |-> Put(h, ref,
                  Put(Merge(TxtFuncMap, h["localFuncMap"],
                            DOMAIN h["localFuncMap"]),
                      "id", "idClosure"))]

\* variant: Quiet is applied after the Format switch
NewWriterQuietLast(vals, config, h, ref) ==
    LET funcMap == newFuncMap(h, ref)
        sinkKind == IF config.Format = <<"raw">> THEN "raw" ELSE "tabwriter"
        sf == SimpleFormat(vals)
        customFormat == config.Format
        hv == CASE customFormat \in {<<"json">>, <<"jsoncompact">>, <<"yaml">>} ->
                     <<(<<>>), customFormat>>
                [] customFormat = <<"raw">> -> <<sf.header, sf.value>>
                [] OTHER -> IF customFormat # <<>>
                            THEN <<(<<>>), customFormat \o <<"\n">> >>
                            ELSE <<sf.header, sf.value>>
    IN [t |-> [closed |-> FALSE,
               HeaderFormat |-> IF config.Quiet THEN <<>> ELSE hv[1],
               ValueFormat |-> IF config.Quiet
                               THEN idFormat(config.IDColumn, vals)
                               ELSE hv[2],
               err |-> Nil,
               headerPrinted |-> FALSE,
               Writer |-> sinkKind,
               funcMap |-> funcMap.ref],
        heap |-> funcMap.heap]

NewWriter(vals, config, h, ref) ==
    LET funcMap == newFuncMap(h, ref)
        sinkKind == IF config.Format = <<"raw">> THEN "raw" ELSE "tabwriter"
        sf == SimpleFormat(vals)
        h1 == IF config.Quiet THEN <<>> ELSE sf.header
        v1 == IF config.Quiet THEN idFormat(config.IDColumn, vals) ELSE sf.value
        customFormat == config.Format
        hv == CASE customFormat = <<"json">> -> <<(<<>>), <<"json">> >>
                [] customFormat = <<"jsoncompact">> -> <<(<<>>), <<"jsoncompact">> >>
                [] customFormat = <<"yaml">> -> <<(<<>>), <<"yaml">> >>
                [] customFormat = <<"raw">> -> <<h1, v1>>
                [] OTHER -> IF customFormat # <<>>
                            THEN <<(<<>>), customFormat \o <<"\n">> >>
                            ELSE <<h1, v1>>
    IN [t |-> [closed |-> FALSE,
               HeaderFormat |-> hv[1],
               ValueFormat |-> hv[2],
               err |-> Nil,
               headerPrinted |-> FALSE,
               Writer |-> sinkKind,
               funcMap |-> funcMap.ref],
        heap |-> funcMap.heap]

\* ---------------------------------------------------------------- rendering
\* index of the first token whose execution fails, 0 if none
RECURSIVE FirstFail(_, _, _)
FirstFail(tmpl, ctx, i) ==
    IF i > Len(tmpl) THEN 0
    ELSE IF ExecFails(tmpl[i], ctx) THEN i
    ELSE FirstFail(tmpl, ctx, i + 1)

\* The tabwriter (minimum width 10, tab width 1, padding 3, no flags)
\* takes every byte into its buffer.  A newline that ends a line of a
\* single cell makes it format and write out all it holds; it is then that
\* a write to the stream can fail, and the bytes stay in the buffer.
\* w = [buf, tabs, out]; the result tells how many tokens were taken.
RECURSIVE TabWrite(_, _, _, _)
TabWrite(w, toks, i, ok) ==
    IF i > Len(toks) THEN [err |-> Nil, n |-> Len(toks), w |-> w]
    ELSE LET b1 == Append(w.buf, toks[i])
         IN IF toks[i] = "\t"
            THEN TabWrite([w EXCEPT !.buf = b1, !.tabs = TRUE], toks, i + 1, ok)
            ELSE IF toks[i] # "\n"
            THEN TabWrite([w EXCEPT !.buf = b1], toks, i + 1, ok)
            ELSE IF w.tabs
            THEN TabWrite([w EXCEPT !.buf = b1, !.tabs = FALSE], toks, i + 1, ok)
            ELSE IF ok
            THEN TabWrite([buf |-> <<>>, tabs |-> FALSE, out |-> w.out \o b1],
                          toks, i + 1, ok)
            ELSE [err |-> SinkWriteError, n |-> i,
                  w |-> [w EXCEPT !.buf = b1, !.tabs = FALSE]]

\* t.Writer.Write of the tokens toks, logged in the sink as a chunk of kind
\* k rendered from ctx.  The raw sink is the stream itself.
SinkTake(s, k, toks, ctx, ok) ==
    LET r == IF s.t.Writer = "tabwriter"
             THEN TabWrite([buf |-> s.tw.buf, tabs |-> s.tw.tabs, out |-> s.out],
                           toks, 1, ok)
             ELSE IF ok \/ toks = <<>>
             THEN [err |-> Nil, n |-> Len(toks),
                   w |-> [buf |-> s.tw.buf, tabs |-> s.tw.tabs,
                          out |-> s.out \o toks]]
             ELSE [err |-> SinkWriteError, n |-> 0,
                   w |-> [buf |-> s.tw.buf, tabs |-> s.tw.tabs, out |-> s.out]]
    IN [err |-> r.err,
        s |-> [s EXCEPT !.tw = [buf |-> r.w.buf, tabs |-> r.w.tabs],
                        !.out = r.w.out,
                        !.sink = IF r.n = 0 THEN @
                                 ELSE Append(@, Chunk(k, SubSeq(toks, 1, r.n), ctx))]]

\* tabwriter Flush: writes out what is held and resets the buffer, also
\* when the write fails
Flush(s, ok) ==
    [err |-> IF ok THEN Nil ELSE FlushError,
     s |-> [s EXCEPT !.flushes = @ + 1,
                     !.out = IF ok THEN @ \o s.tw.buf ELSE @,
                     !.tw = [buf |-> <<>>, tabs |-> FALSE]]]

\* printTemplate on writer state s; sinkOk tells whether the stream accepts
\* what this render makes the sink write out.  Execute writes token by
\* token, so the tokens before a failing one reach the sink.
printTemplate(s, templateContent, obj, sinkOk) ==
    LET funcs == DOMAIN s.heap[s.t.funcMap]
        parseFails == \E i \in 1..Len(templateContent) :
                         \/ Malformed(templateContent[i])
                         \/ /\ Needs(templateContent[i]) # "none"
                            /\ Needs(templateContent[i]) \notin funcs
        j == FirstFail(templateContent, obj, 1)
        n == IF j = 0 THEN Len(templateContent) ELSE j - 1
        r == SinkTake(s, "tmpl", SubSeq(templateContent, 1, n), obj, sinkOk)
    IN IF parseFails THEN [err |-> ParseError, s |-> s]
       ELSE IF r.err # Nil THEN r
       ELSE [err |-> IF j = 0 THEN Nil ELSE ExecError, s |-> r.s]

\* t.Writer.Write(bytes)
SinkWrite(s, bytes, ctx, ok) == SinkTake(s, "bytes", bytes, ctx, ok)

\* ---------------------------------------------------------------- methods
\* Each method maps the state s = [t, sink, flushes, tw, out, heap] and the
\* environment of the call to the state after it.

AddFormatFunc(s, name, f) ==
    [s EXCEPT !.heap[s.t.funcMap] = Put(@, name, f)]

\* variant: the header flag is not consulted
writeHeaderNoFlag(s, env) ==
    IF s.t.HeaderFormat # <<>>
    THEN LET r == printTemplate(s, s.t.HeaderFormat, EmptyStruct, env.hdr)
         IN [r.s EXCEPT !.t.headerPrinted = TRUE, !.t.err = r.err]
    ELSE s

\* variant: the header template is cleared once the header is written
writeHeaderClearsFormat(s, env) ==
    IF s.t.HeaderFormat # <<>> /\ ~s.t.headerPrinted
    THEN LET r == printTemplate(s, s.t.HeaderFormat, EmptyStruct, env.hdr)
         IN [r.s EXCEPT !.t.headerPrinted = TRUE, !.t.err = r.err,
                        !.t.HeaderFormat = <<>>]
    ELSE s

\* variant: the header flag is set only when the render succeeded
writeHeaderFlagOnSuccess(s, env) ==
    IF s.t.HeaderFormat # <<>> /\ ~s.t.headerPrinted
    THEN LET r == printTemplate(s, s.t.HeaderFormat, EmptyStruct, env.hdr)
         IN [r.s EXCEPT !.t.headerPrinted = (r.err = Nil), !.t.err = r.err]
    ELSE s

writeHeader(s, env) ==
    IF s.t.HeaderFormat # <<>> /\ ~s.t.headerPrinted
    THEN LET r == printTemplate(s, s.t.HeaderFormat, EmptyStruct, env.hdr)
         IN [r.s EXCEPT !.t.headerPrinted = TRUE, !.t.err = r.err]
    ELSE s

\* variant: a failed conversion is stored and nothing is rendered
WriteValueKeepsConversionError(s, obj, env) ==
    CASE s.t.ValueFormat = <<"json">> ->
           LET c == FormatJSON(obj)
           IN IF c.err # Nil THEN [s EXCEPT !.t.err = c.err]
              ELSE LET r == SinkWrite(s, c.s \o <<"\n">>, ObjCtx(obj), env.val)
                   IN [r.s EXCEPT !.t.err = r.err]
      [] s.t.ValueFormat = <<"jsoncompact">> ->
           LET c == FormatJSONCompact(obj)
           IN IF c.err # Nil THEN [s EXCEPT !.t.err = c.err]
              ELSE LET r == SinkWrite(s, c.s, ObjCtx(obj), env.val)
                   IN [r.s EXCEPT !.t.err = r.err]
      [] s.t.ValueFormat = <<"yaml">> ->
           LET c == FormatJSON(obj)
           IN IF c.err # Nil THEN [s EXCEPT !.t.err = c.err]
              ELSE LET y == JSONToYAML(c.s, env.conv)
                   IN IF y.err # Nil THEN [s EXCEPT !.t.err = y.err]
                      ELSE LET m == SinkWrite(s, <<"---", "\n">>, ObjCtx(obj),
                                              env.marker)
                               s1 == m.s
                               r == SinkWrite(s1, y.s \o <<"\n">>, ObjCtx(obj),
                                              env.val)
                           IN [r.s EXCEPT !.t.err = r.err]
      [] OTHER ->
           LET d == EncodeToMap(obj)
               data == [d.data EXCEPT !.Typed = obj]
           IN IF d.err = Nil
              THEN LET r == printTemplate(s, s.t.ValueFormat, data, env.val)
                   IN [r.s EXCEPT !.t.err = r.err]
              ELSE [s EXCEPT !.t.err = d.err]

WriteValue(s, obj, env) ==
    CASE s.t.ValueFormat = <<"json">> ->
           LET c == FormatJSON(obj)
           IN IF c.err # Nil THEN [s EXCEPT !.t.err = c.err]
              ELSE LET r == SinkWrite(s, c.s \o <<"\n">>, ObjCtx(obj), env.val)
                   IN [r.s EXCEPT !.t.err = r.err]
      [] s.t.ValueFormat = <<"jsoncompact">> ->
           LET c == FormatJSONCompact(obj)
           IN IF c.err # Nil THEN [s EXCEPT !.t.err = c.err]
              ELSE LET r == SinkWrite(s, c.s, ObjCtx(obj), env.val)
                   IN [r.s EXCEPT !.t.err = r.err]
      [] s.t.ValueFormat = <<"yaml">> ->
           LET c == FormatJSON(obj)
           IN IF c.err # Nil THEN [s EXCEPT !.t.err = c.err]
              ELSE LET y == JSONToYAML(c.s, env.conv)
                   IN IF y.err # Nil THEN [s EXCEPT !.t.err = y.err]
                      ELSE LET m == SinkWrite(s, <<"---", "\n">>, ObjCtx(obj),
                                              env.marker)
                               s1 == m.s
                               r == SinkWrite(s1, y.s \o <<"\n">>, ObjCtx(obj),
                                              env.val)
                           IN [r.s EXCEPT !.t.err = r.err]
      [] OTHER ->
           LET d == EncodeToMap(obj)
               data == [d.data EXCEPT !.Typed = obj]
               r == IF d.err = Nil
                    THEN printTemplate(s, s.t.ValueFormat, data, env.val)
                    ELSE printTemplate(s, s.t.ValueFormat, ObjCtx(obj), env.val)
           IN [r.s EXCEPT !.t.err = r.err]

\* variant: the stored error is not consulted
WriteNoErrCheck(s, obj, env) ==
    WriteValue(writeHeader(s, env), obj, env)

\* variant: the value is emitted before the header
WriteValueFirst(s, obj, env) ==
    IF s.t.err # Nil THEN s
    ELSE LET s1 == WriteValue(s, obj, env)
         IN IF s1.t.err # Nil THEN s1
            ELSE writeHeader(s1, env)

Write(s, obj, env) ==
    IF s.t.err # Nil THEN s
    ELSE LET s1 == writeHeader(s, env)
         IN IF s1.t.err # Nil THEN s1
            ELSE WriteValue(s1, obj, env)

\* variant: an errored writer is flushed before its error is returned
CloseFlushesWhenErrored(s, env) ==
    IF s.t.closed THEN [s |-> s, ret |-> s.t.err]
    ELSE IF s.t.err # Nil
    THEN IF s.t.Writer = "tabwriter"
         THEN [s |-> [Flush(s, env.flush).s EXCEPT !.t.closed = TRUE],
               ret |-> s.t.err]
         ELSE [s |-> s, ret |-> s.t.err]
    ELSE LET s1 == writeHeader(s, env)
         IN IF s1.t.err # Nil
            THEN [s |-> [s1 EXCEPT !.t.closed = TRUE], ret |-> s1.t.err]
            ELSE IF s1.t.Writer = "tabwriter"
            THEN LET f == Flush(s1, env.flush)
                 IN [s |-> [f.s EXCEPT !.t.closed = TRUE], ret |-> f.err]
            ELSE [s |-> [s1 EXCEPT !.t.closed = TRUE], ret |-> Nil]

\* variant: a closed writer reports success
CloseClosedReturnsNil(s, env) ==
    IF s.t.closed THEN [s |-> s, ret |-> Nil]
    ELSE IF s.t.err # Nil THEN [s |-> s, ret |-> s.t.err]
    ELSE LET s1 == writeHeader(s, env)
         IN IF s1.t.err # Nil
            THEN [s |-> [s1 EXCEPT !.t.closed = TRUE], ret |-> s1.t.err]
            ELSE IF s1.t.Writer = "tabwriter"
            THEN LET f == Flush(s1, env.flush)
                 IN [s |-> [f.s EXCEPT !.t.closed = TRUE], ret |-> f.err]
            ELSE [s |-> [s1 EXCEPT !.t.closed = TRUE], ret |-> Nil]

\* variant: the closed flag is not consulted
CloseNoClosedCheck(s, env) ==
    IF s.t.err # Nil THEN [s |-> s, ret |-> s.t.err]
    ELSE LET s1 == writeHeader(s, env)
         IN IF s1.t.err # Nil
            THEN [s |-> [s1 EXCEPT !.t.closed = TRUE], ret |-> s1.t.err]
            ELSE IF s1.t.Writer = "tabwriter"
            THEN LET f == Flush(s1, env.flush)
                 IN [s |-> [f.s EXCEPT !.t.closed = TRUE], ret |-> f.err]
            ELSE [s |-> [s1 EXCEPT !.t.closed = TRUE], ret |-> Nil]

\* Close returns [s |-> state after, ret |-> returned error]; the deferred
\* closed = true runs on every path after the two early returns.
Close(s, env) ==
    IF s.t.closed THEN [s |-> s, ret |-> s.t.err]
    ELSE IF s.t.err # Nil THEN [s |-> s, ret |-> s.t.err]
    ELSE LET s1 == writeHeader(s, env)
         IN IF s1.t.err # Nil
            THEN [s |-> [s1 EXCEPT !.t.closed = TRUE], ret |-> s1.t.err]
            ELSE IF s1.t.Writer = "tabwriter"
            THEN LET f == Flush(s1, env.flush)
                 IN [s |-> [f.s EXCEPT !.t.closed = TRUE], ret |-> f.err]
            ELSE [s |-> [s1 EXCEPT !.t.closed = TRUE], ret |-> Nil]

\* variant: Err only reports the stored error
ErrPeek(s, env) == [s |-> s, ret |-> s.t.err]

Err(s, env) == Close(s, env)

\* ---------------------------------------------------------------- machine
Cur ==
    [t |-> t, sink |-> sink, flushes |-> flushes, tw |-> tw, out |-> out,
     heap |-> heap]

NoCall ==
    [name |-> "none", str |-> <<>>, in |-> <<>>, num |-> 0, out |-> <<>>,
     err |-> Nil]

\* Did some step of the value emission of Write(obj) fail in state s (the
\* state after the header step): an encoder, the conversion to YAML, the
\* template, or the sink refusing bytes handed to it.
ValueStepFailed(s, obj, env) ==
    CASE s.t.ValueFormat = <<"json">> -> ~Marshals(obj) \/ ~env.val
      [] s.t.ValueFormat = <<"jsoncompact">> -> ~Marshals(obj) \/ ~env.val
      [] s.t.ValueFormat = <<"yaml">> ->
           \/ ~Marshals(obj)
           \/ ~env.conv
           \/ ~env.marker
           \/ ~env.val
      [] OTHER ->
           LET d == EncodeToMap(obj)
               ctx == IF d.err = Nil THEN [d.data EXCEPT !.Typed = obj]
                      ELSE ObjCtx(obj)
           IN printTemplate(s, s.t.ValueFormat, ctx, env.val).err # Nil

Call(op, arg) ==
    [op |-> op, arg |-> arg, ret |-> "none", preErr |-> t.err,
     preClosed |-> t.closed, preHeader |-> t.headerPrinted,
     valueFailed |-> FALSE]

\* two writers built from one configuration, nothing written yet
Constructed ==
    /\ cfg \in Configs
    /\ values \in ColumnSpecs
    /\ LET a == NewWriter(values, cfg, Heap0, "w1")
           b == NewWriter(values, cfg, a.heap, "w2")
       IN /\ t = a.t
          /\ t2 = b.t
          /\ heap = b.heap
    /\ sink = <<>>
    /\ flushes = 0
    /\ tw = [buf |-> <<>>, tabs |-> FALSE]
    /\ out = <<>>
    /\ fn = NoCall
    /\ last = [op |-> "NewWriter", arg |-> "none", ret |-> "none",
               preErr |-> Nil, preClosed |-> FALSE, preHeader |-> FALSE,
               valueFailed |-> FALSE]
    /\ nops = 0

\* NoTrunc is read by the id closure alone (line 78), and no template
\* rendered here calls id: the writer's operations are run with NoTrunc
\* false, the closure itself with both values.
Init ==
    /\ Constructed
    /\ ~cfg.NoTrunc

Install(s) ==
    /\ t' = s.t
    /\ sink' = s.sink
    /\ flushes' = s.flushes
    /\ tw' = s.tw
    /\ out' = s.out
    /\ heap' = s.heap
    /\ nops' = nops + 1
    /\ UNCHANGED <<cfg, values, t2, fn>>

DoWrite ==
    /\ nops < MaxOps
    /\ \E obj \in Records, env \in WriteEnvs :
         /\ Install(Write(Cur, obj, env))
         /\ last' = [Call("Write", obj) EXCEPT !.valueFailed =
                        LET s1 == writeHeader(Cur, env)
                        IN /\ t.err = Nil
                           /\ s1.t.err = Nil
                           /\ ValueStepFailed(s1, obj, env)]

DoClose ==
    /\ nops < MaxOps
    /\ \E env \in CloseEnvs :
         LET r == Close(Cur, env)
         IN /\ Install(r.s)
            /\ last' = [Call("Close", "none") EXCEPT !.ret = r.ret]

DoErr ==
    /\ nops < MaxOps
    /\ \E env \in CloseEnvs :
         LET r == Err(Cur, env)
         IN /\ Install(r.s)
            /\ last' = [Call("Err", "none") EXCEPT !.ret = r.ret]

DoAddFormatFunc ==
    /\ nops < MaxOps
    /\ \E name \in FuncNames, f \in UserFuncs :
         /\ Install(AddFormatFunc(Cur, name, f))
         /\ last' = Call("AddFormatFunc", name)

Next == DoWrite \/ DoClose \/ DoErr \/ DoAddFormatFunc

Spec == Init /\ [][Next]_vars

\* ---------------------------------------------------------------- functions called
\* The template functions id and graph, applied to arguments as a
\* template of a fresh writer would apply them.
RECURSIVE StringsUpTo(_)
StringsUpTo(n) ==
    IF n = 0 THEN {<<>>}
    ELSE LET shorter == StringsUpTo(n - 1)
         IN shorter \cup {Append(x, c) : x \in shorter, c \in Chars}

Eleven == <<"a", "b", "a", "b", "a", "b", "a", "b", "a", "b", "a">>
IdStrings == {base \o x : base \in {<<>>, Eleven}, x \in StringsUpTo(MaxTail)}
GraphValues == (0 - MaxNegGraph)..MaxGraph

InitFuncs ==
    /\ Constructed
    /\ cfg.Format = <<>>
    /\ cfg.IDColumn = "NAME"

CallId ==
    /\ fn = NoCall
    /\ heap[t.funcMap]["id"] = "idClosure"
    /\ \E str \in IdStrings :
         LET r == idClosure(cfg, UTF8(str))
         IN fn' = [name |-> "id", str |-> str, in |-> UTF8(str), num |-> 0,
                   out |-> r.s, err |-> r.err]
    /\ UNCHANGED <<cfg, values, t, sink, flushes, tw, out, heap, t2, last, nops>>

CallGraph ==
    /\ fn = NoCall
    /\ heap[t.funcMap]["graph"] = "Graph"
    /\ \E value \in GraphValues :
         LET r == Graph(value)
         IN fn' = [name |-> "graph", str |-> <<>>, in |-> <<>>, num |-> value,
                   out |-> r.s, err |-> r.err]
    /\ UNCHANGED <<cfg, values, t, sink, flushes, tw, out, heap, t2, last, nops>>

NextFuncs == CallId \/ CallGraph

SpecFuncs == InitFuncs /\ [][NextFuncs]_vars

\* ---------------------------------------------------------------- claims
IsHeaderChunk(ch) == ch.c = EmptyStruct
HeaderCount == Cardinality({i \in 1..Len(sink) : IsHeaderChunk(sink[i])})
ClosingOps == {"Close", "Err"}

\* C1: with a non-empty header template, a run whose operations all
\* succeeded and that ends with Close has the complete header in the sink
\* exactly once, as the first thing written, for any number of Writes.
C1_HeaderOnceFirst ==
    (/\ t.HeaderFormat # <<>>
     /\ last.op = "Close"
     /\ last.ret = Nil
     /\ t.err = Nil)
    => /\ HeaderCount = 1
       /\ sink[1] = Chunk("tmpl", t.HeaderFormat, EmptyStruct)

C1_Witness ==
    /\ t.HeaderFormat # <<>>
    /\ last.op = "Close"
    /\ last.ret = Nil
    /\ t.err = Nil
    /\ Len(sink) = 3
    /\ HeaderCount = 1

\* C2: while the stored error is non-nil, no call appends to the sink or
\* flushes it.
C2_NoOutputAfterError ==
    [][t.err # Nil => sink' = sink /\ flushes' = flushes]_vars

C2_Witness ==
    /\ last.preErr # Nil
    /\ last.op = "Write"
    /\ Len(sink) > 0

\* C3: two Close calls in a row return the same result.
C3_CloseTwiceSame ==
    [][(last.op = "Close" /\ last'.op = "Close") => last'.ret = last.ret]_vars

\* C4: a non-nil stored error is never cleared or replaced, and every
\* later Close and Err returns it.
C4_StickyError ==
    [][t.err # Nil =>
          /\ t'.err = t.err
          /\ (last'.op \in ClosingOps => last'.ret = t.err)]_vars

C4_Witness ==
    /\ last.preErr # Nil
    /\ last.op \in ClosingOps
    /\ last.preClosed
    /\ last.ret = t.err

\* C5: once the writer is closed, no call appends to the sink or changes
\* the header flag or the stored error.
C5_ClosedIsTerminal ==
    [][t.closed =>
          /\ sink' = sink
          /\ t'.headerPrinted = t.headerPrinted
          /\ t'.err = t.err]_vars

\* C6: the buffered sink is flushed at most once: by the first Close/Err
\* that finds no stored error and whose header step succeeds, and by no
\* other call.
C6_FlushOnce ==
    [][/\ flushes' <= 1
       /\ flushes' = flushes +
            (IF /\ last'.op \in ClosingOps
                /\ t.Writer = "tabwriter"
                /\ ~t.closed
                /\ t.err = Nil
                /\ t'.err = Nil
             THEN 1 ELSE 0)]_vars

C6_Witness ==
    /\ flushes = 1
    /\ last.op \in ClosingOps
    /\ last.preClosed
    /\ last.preErr = Nil

\* C7: an Err call has the result and the effect of a Close call made in
\* the same state.
C7_ErrIsClose ==
    [][last'.op = "Err" =>
          \E env \in Envs :
             LET r == Close(Cur, env)
             IN /\ t' = r.s.t
                /\ sink' = r.s.sink
                /\ flushes' = r.s.flushes
                /\ tw' = r.s.tw
                /\ out' = r.s.out
                /\ heap' = r.s.heap
                /\ last'.ret = r.ret]_vars

C7_Witness ==
    /\ last.op = "Err"
    /\ ~last.preClosed
    /\ ~last.preHeader
    /\ last.preErr = Nil
    /\ t.headerPrinted
    /\ HeaderCount = 1
    /\ flushes = 1
    /\ t.closed

\* C8: a Write whose value emission step failed leaves a stored error.
C8_ValueFailureLatched ==
    (last.op = "Write" /\ last.valueFailed) => t.err # Nil

\* C9: the templates chosen at construction, by Format first and Quiet
\* second.
Sentinels == {<<"json">>, <<"jsoncompact">>, <<"yaml">>}
KeepsEarlier == {<<>>, <<"raw">>}

C9_ModeSelection ==
    /\ cfg.Format \in Sentinels =>
          t.HeaderFormat = <<>> /\ t.ValueFormat = cfg.Format
    /\ cfg.Format \notin (Sentinels \cup KeepsEarlier) =>
          t.HeaderFormat = <<>> /\ t.ValueFormat = cfg.Format \o <<"\n">>
    /\ (cfg.Format \in KeepsEarlier /\ ~cfg.Quiet) =>
          /\ t.HeaderFormat = SimpleFormat(values).header
          /\ t.ValueFormat = SimpleFormat(values).value
    /\ (cfg.Format \in KeepsEarlier /\ cfg.Quiet) =>
          /\ t.HeaderFormat = <<>>
          /\ t.ValueFormat = idFormat(cfg.IDColumn, values)

C9_Witness ==
    /\ cfg.Quiet
    /\ cfg.Format = <<"{{.ID}}">>
    /\ t.ValueFormat = <<"{{.ID}}", "\n">>
    /\ t.HeaderFormat = <<>>

\* C10: quiet mode without a format.
QuietPlain == cfg.Quiet /\ cfg.Format \in KeepsEarlier
IDRows == {i \in 1..Len(values) : values[i][1] = cfg.IDColumn}
IDRows2 == {i \in IDRows : Len(values[i]) > 1}
FirstIDRow == CHOOSE i \in IDRows2 : \A j \in IDRows2 : i <= j
EmitsOneLine(row) ==
    /\ Len(sink') = Len(sink) + 1
    /\ sink'[Len(sink')].k = "tmpl"
    /\ sink'[Len(sink')].t = <<values[row][2], "\n">>
    /\ sink'[Len(sink')].c.of = last'.arg

RECURSIVE Flat(_)
Flat(chunks) ==
    IF chunks = <<>> THEN <<>> ELSE Head(chunks).t \o Flat(Tail(chunks))

WriteThroughFormats == {<<"raw">>} \cup Sentinels
NewChunks == SubSeq(sink', Len(sink) + 1, Len(sink'))
EndsWith(seq, tail) ==
    /\ Len(seq) >= Len(tail)
    /\ SubSeq(seq, Len(seq) - Len(tail) + 1, Len(seq)) = tail

\* C11: in raw, json, jsoncompact and yaml mode, what a successful Write
\* hands to the sink is on the output stream when the Write returns and
\* nothing stays held; a writer without stored error holds bytes only in
\* the other (table and template) modes.
C11_WriteThrough ==
    [][/\ (/\ last'.op = "Write"
           /\ cfg.Format \in WriteThroughFormats
           /\ t.err = Nil
           /\ t'.err = Nil)
          => /\ tw'.buf = <<>>
             /\ Len(out') >= Len(out) + Len(Flat(NewChunks))
             /\ EndsWith(out', Flat(NewChunks))
       /\ (t'.err = Nil /\ tw'.buf # <<>>) =>
             cfg.Format \notin WriteThroughFormats]_vars

C11_Witness ==
    /\ cfg.Format = <<"jsoncompact">>
    /\ last.op = "Write"
    /\ t.err = Nil
    /\ ~t.closed
    /\ flushes = 0
    /\ Len(sink) = 2
    /\ out = Flat(sink)

\* C12: id returns its argument unchanged under NoTrunc or Quiet, and
\* otherwise the first 12 characters of an argument longer than 12
\* characters and the argument itself when it has 12 or fewer; no error.
C12_IdCharacters ==
    fn.name = "id" =>
       /\ fn.err = Nil
       /\ fn.out = IF cfg.NoTrunc \/ cfg.Quiet THEN UTF8(fn.str)
                   ELSE IF Len(fn.str) > 12 THEN UTF8(SubSeq(fn.str, 1, 12))
                   ELSE UTF8(fn.str)

\* C13: graph(value) is empty when floor(value * 30 / 100) <= 0, and
\* otherwise that many characters less one of "=", then "> " and the value.
Equals(n) == [i \in 1..n |-> "="]

C13_GraphExact ==
    fn.name = "graph" =>
       LET bars == (fn.num * 30) \div 100
       IN /\ fn.err = Nil
          /\ fn.out = IF bars <= 0 THEN <<>>
                      ELSE Equals(bars - 1) \o <<">", " ">> \o Decimal(fn.num)

\* the sink took the whole header from a header render
HeaderRendered ==
    \E i \in 1..Len(sink) :
       IsHeaderChunk(sink[i]) /\ sink[i].t = t.HeaderFormat

\* a call that reaches writeHeader
ReachesHeader ==
    \/ last'.op = "Write" /\ t.err = Nil
    \/ last'.op \in ClosingOps /\ ~t.closed /\ t.err = Nil

C15_ModeFixed ==
    [][/\ t'.HeaderFormat = t.HeaderFormat
       /\ t'.ValueFormat = t.ValueFormat
       /\ t'.Writer = t.Writer]_vars

\* each of the four operations has run on the writer
C15_Witness ==
    /\ nops = MaxOps
    /\ last.op = "AddFormatFunc"
    /\ t.closed
    /\ t.headerPrinted
    /\ sink # <<>>
    /\ t.HeaderFormat # <<>>

\* the render context C16 names: the mapping with Typed bound to the
\* record when the conversion succeeds, the record itself when it fails
TemplateCtx(obj) ==
    IF EncodeToMap(obj).err = Nil THEN MapCtx(obj) ELSE ObjCtx(obj)

\* C16: in a Write with a value template the conversion failure is never
\* stored; the value template is rendered against the record itself when
\* the conversion fails and against the mapping with Typed when it
\* succeeds, and the stored error is the outcome of that render.
C16_ConversionSwallowed ==
    [][(last'.op = "Write" /\ t.err = Nil /\ t.ValueFormat \notin Sentinels) =>
          /\ t'.err # "ConversionError"
          /\ \E env \in WriteEnvs :
                LET s1 == writeHeader(Cur, env)
                    r == printTemplate(s1, t.ValueFormat,
                                       TemplateCtx(last'.arg), env.val)
                IN IF s1.t.err # Nil
                   THEN t' = s1.t /\ sink' = s1.sink /\ out' = s1.out
                   ELSE /\ t' = [r.s.t EXCEPT !.err = r.err]
                        /\ sink' = r.s.sink
                        /\ out' = r.s.out]_vars

\* a record that cannot be converted was rendered from the record itself
\* and the writer stayed free of error
C16_Witness ==
    /\ last.op = "Write"
    /\ last.preErr = Nil
    /\ EncodeToMap(last.arg).err # Nil
    /\ t.ValueFormat \notin Sentinels
    /\ t.err = Nil
    /\ sink # <<>>
    /\ sink[Len(sink)] = Chunk("tmpl", t.ValueFormat, ObjCtx(last.arg))

\* texts that carry the key Typed
TypedTexts == {"{ ID, Name, Typed }", "{ID,Name,Typed}", "ID: Name: Typed:"}

\* a JSON text parsed back into a generic value
ParseJSON(text) ==
    CASE text \in {"{ ID, Name }", "{ID,Name}"} ->
           [kind |-> "map", of |-> "struct", Typed |-> "none"]
      [] text \in {"{ ID, Name, Typed }", "{ID,Name,Typed}"} ->
           [kind |-> "map", of |-> "struct", Typed |-> "struct"]
      [] OTHER -> [kind |-> "list", of |-> "slice", Typed |-> "none"]

PendingHeader ==
    IF t.HeaderFormat # <<>> /\ ~t.headerPrinted
    THEN <<Chunk("tmpl", t.HeaderFormat, EmptyStruct)>>
    ELSE <<>>

Rendering(obj) ==
    CASE t.ValueFormat = <<"json">> ->
           <<Chunk("bytes", <<MarshalIndent(obj), "\n", "\n">>, ObjCtx(obj))>>
      [] t.ValueFormat = <<"jsoncompact">> ->
           <<Chunk("bytes", <<Marshal(obj), "\n">>, ObjCtx(obj))>>
      [] t.ValueFormat = <<"yaml">> ->
           <<Chunk("bytes", <<"---", "\n">>, ObjCtx(obj)),
             Chunk("bytes", JSONToYAML(<<MarshalIndent(obj)>>, TRUE).s \o <<"\n">>,
                   ObjCtx(obj))>>
      [] OTHER ->
           IF t.ValueFormat = <<>> THEN <<>>
           ELSE <<Chunk("tmpl", t.ValueFormat, TemplateCtx(obj))>>

\* C18: what the sink was handed is never changed afterwards; a Write
\* that succeeds appends the header, if still to come, and then the
\* rendering of its record, once; no other call appends anything but the
\* header; a first Close that succeeds leaves on the output stream
\* exactly what the sink was handed, in that order.
C18_OrderFollowsCalls ==
    [][/\ Len(sink') >= Len(sink)
       /\ SubSeq(sink', 1, Len(sink)) = sink
       /\ (last'.op = "Write" /\ t.err = Nil /\ t'.err = Nil) =>
             NewChunks = PendingHeader \o Rendering(last'.arg)
       /\ last'.op # "Write" => (NewChunks = <<>> \/ NewChunks = PendingHeader)
       /\ (last'.op \in ClosingOps /\ ~t.closed /\ t.err = Nil /\ last'.ret = Nil) =>
             out' = Flat(sink')]_vars

\* two different records were written and the writer closed, all with
\* success, in table mode
C18_Witness ==
    /\ last.op = "Close"
    /\ last.ret = Nil
    /\ ~last.preClosed
    /\ t.HeaderFormat # <<>>
    /\ Len(sink) = 3
    /\ IsHeaderChunk(sink[1])
    /\ sink[2] = Chunk("tmpl", t.ValueFormat, MapCtx("struct"))
    /\ sink[3] = Chunk("tmpl", t.ValueFormat, ObjCtx("chanStruct"))
    /\ out = Flat(sink)

\* C19: once a writer with the buffering sink has a stored error, no call
\* flushes the sink or hands it anything, so what the buffer holds is
\* never delivered to the output stream.
C19_ErroredNeverFlushes ==
    [][(t.Writer = "tabwriter" /\ t.err # Nil) =>
          /\ flushes' = flushes
          /\ out' = out
          /\ tw' = tw
          /\ sink' = sink]_vars

\* the first Close of a writer that holds the header in its buffer and
\* has a stored error from a Write
C19_Witness ==
    /\ t.Writer = "tabwriter"
    /\ last.op = "Close"
    /\ last.preErr # Nil
    /\ ~last.preClosed
    /\ last.ret = last.preErr
    /\ tw.buf # <<>>
    /\ IsHeaderChunk(sink[1])
    /\ flushes = 0
    /\ out = <<>>

CustomTemplate == <<"{{custom .ID}}", "\n">>

\* C20: AddFormatFunc binds the name in the writer's own catalog and
\* changes nothing else: not the catalog of the other writer, not the
\* package-level catalog, not the writer's fields nor its sink; a render
\* after the call sees the binding, one before it does not.
C20_CatalogPerWriter ==
    [][/\ last'.op = "AddFormatFunc" =>
             /\ \E f \in UserFuncs :
                   heap'[t.funcMap] = Put(heap[t.funcMap], last'.arg, f)
             /\ heap'[t2.funcMap] = heap[t2.funcMap]
             /\ heap'["localFuncMap"] = heap["localFuncMap"]
             /\ t' = t
             /\ <<sink', tw', out', flushes'>> = <<sink, tw, out, flushes>>
       /\ (last'.op = "Write" /\ t.err = Nil /\ t.ValueFormat = CustomTemplate) =>
             (t'.err = ParseError <=> "custom" \notin DOMAIN heap[t.funcMap])
       /\ heap'["localFuncMap"] = localFuncMap
       /\ "custom" \notin DOMAIN heap'[t2.funcMap]
       /\ heap'[t2.funcMap]["id"] = "idClosure"]_vars

\* a template that calls the added function was rendered after the call,
\* on a writer whose id was replaced as well
C20_Witness ==
    /\ last.op = "Write"
    /\ t.ValueFormat = CustomTemplate
    /\ t.err = Nil
    /\ sink # <<>>
    /\ "custom" \in DOMAIN heap[t.funcMap]
    /\ heap[t.funcMap]["id"] = "userFunc"
    /\ heap[t2.funcMap]["id"] = "idClosure"
====
